---- MODULE Spec2Model ----
(***************************************************************************)
(* Model of financial-assessment-e2324103: the per-account ledger          *)
(* (src/src/account.rs), the row conversions (src/src/csv_rows.rs) and the *)
(* driver loop of main (src/src/main.rs).                                  *)
(*                                                                         *)
(* Amounts are BigDecimal values in the code (account.rs:14,17); they are  *)
(* modelled as integers counting 1/10000 currency units, so arithmetic is  *)
(* exact and unbounded as in the code.  Input amounts are drawn with at    *)
(* most four fractional digits, on which round(4) (csv_rows.rs:37) keeps   *)
(* the value.                                                              *)
(***************************************************************************)
EXTENDS Integers, Sequences, FiniteSets, TLC

VARIABLES accounts, pc, output, last, nread, solo

vars == <<accounts, pc, output, last, nread, solo>>

----------------------------------------------------------------------------
(* Bounds of the model *)

\* client ids of the driver specification are 1..MaxClient
MaxClient == 2
\* transaction ids are 1..MaxTx
MaxTx == 2
\* amounts of input rows are -1..MaxAmount (in 1/10000 units)
MaxAmount == 1
\* rows read from the input file under Spec (one account)
MaxRows == 6
\* rows read from the input file under SpecDriver (several accounts)
MaxDriverRows == 2

TxIds == 1..MaxTx
Clients == 1..MaxClient
\* Spec feeds every row to one account, the first client id
AccountClients == {x \in Clients : \A y \in Clients : x <= y}

----------------------------------------------------------------------------
(* transaction.rs: enumerations and value types *)

TransactionType == {"Deposit", "Withdrawal"}

DisputeState == {"Undisputed", "Disputed", "ChargedBack"}

DisputeActionType == {"Dispute", "Resolve", "Chargeback"}

Transaction(id, client_id, amount, transaction_type, dispute_state) ==
    [id |-> id, client_id |-> client_id, amount |-> amount,
     transaction_type |-> transaction_type, dispute_state |-> dispute_state]

DisputeAction(action_type, client_id, transaction_id) ==
    [action_type |-> action_type, client_id |-> client_id,
     transaction_id |-> transaction_id]

----------------------------------------------------------------------------
(* csv_rows.rs: input rows and their conversions *)

\* Option<BigDecimal>
None == [some |-> FALSE, value |-> 0]
Some(v) == [some |-> TRUE, value |-> v]

TypeStrings == {"deposit", "withdrawal", "dispute", "resolve", "chargeback", "transfer"}

InputRow(transaction_type, client, tx, amount) ==
    [transaction_type |-> transaction_type, client |-> client, tx |-> tx,
     amount |-> amount]

\* the rows an input file can hold for the clients C: a deposit or a
\* withdrawal with any amount or none, a dispute, resolve or chargeback
\* without the amount column (main.rs:20: optional and ignored for them), and
\* a row of an unknown type with or without an amount
Rows(C) ==
    {InputRow(ty, c, t, a) :
        ty \in {"deposit", "withdrawal"}, c \in C, t \in TxIds,
        a \in {None} \cup {Some(v) : v \in -1..MaxAmount}}
    \cup
    {InputRow(ty, c, t, None) :
        ty \in TypeStrings \ {"deposit", "withdrawal"}, c \in C, t \in TxIds}
    \cup
    {InputRow(ty, c, t, Some(MaxAmount)) :
        ty \in TypeStrings \ {"deposit", "withdrawal", "dispute", "resolve", "chargeback"},
        c \in C, t \in TxIds}

\* the rows of an input file all of whose rows name one client
AccountRows == Rows(AccountClients)

\* the rows of an input file whose rows name any client
DriverRows == Rows(Clients)

\* before the first row is read
NoRow == InputRow("", 0, 0, None)

Err == [ok |-> FALSE, value |-> None]
Ok(v) == [ok |-> TRUE, value |-> v]

\* impl TryFrom<InputRow> for Transaction
TransactionTryFrom(row) ==
    IF ~row.amount.some THEN Err
    ELSE IF row.amount.value < 0 THEN Err
    ELSE IF row.transaction_type = "deposit"
         THEN Ok(Transaction(row.tx, row.client, row.amount.value, "Deposit", "Undisputed"))
    ELSE IF row.transaction_type = "withdrawal"
         THEN Ok(Transaction(row.tx, row.client, row.amount.value, "Withdrawal", "Undisputed"))
    ELSE Err

\* impl TryFrom<InputRow> for DisputeAction
DisputeActionTryFrom(row) ==
    IF row.transaction_type = "dispute"
         THEN Ok(DisputeAction("Dispute", row.client, row.tx))
    ELSE IF row.transaction_type = "resolve"
         THEN Ok(DisputeAction("Resolve", row.client, row.tx))
    ELSE IF row.transaction_type = "chargeback"
         THEN Ok(DisputeAction("Chargeback", row.client, row.tx))
    ELSE Err

\* the conversion with the total taken from the available balance alone
OutputRowFrom_available_total(account) ==
    [client |-> account.id,
     total |-> account.available_balance,
     available |-> account.available_balance,
     held |-> account.held_balance,
     locked |-> account.is_frozen]

\* impl From<Account> for OutputRow
OutputRowFrom(account) ==
    [client |-> account.id,
     total |-> account.available_balance + account.held_balance,
     available |-> account.available_balance,
     held |-> account.held_balance,
     locked |-> account.is_frozen]

----------------------------------------------------------------------------
(* account.rs: the account ledger *)

\* HashMap::new()
EmptyMap == [t \in {} |-> None]

\* HashMap::insert
Insert(map, key, value) ==
    [k \in DOMAIN map \cup {key} |-> IF k = key THEN value ELSE map[k]]

\* Account::new
AccountNew(id) ==
    [id |-> id, available_balance |-> 0, held_balance |-> 0,
     transactions |-> EmptyMap, is_frozen |-> FALSE]

\* register_transaction without the check of the funds of a withdrawal
register_transaction_overdraft(self, transaction) ==
    IF self.is_frozen THEN self
    ELSE IF transaction.id \in DOMAIN self.transactions THEN self
    ELSE IF transaction.transaction_type = "Deposit"
         THEN [self EXCEPT
                 !.available_balance = @ + transaction.amount,
                 !.transactions = Insert(@, transaction.id, transaction)]
    ELSE [self EXCEPT
            !.available_balance = @ - transaction.amount,
            !.transactions = Insert(@, transaction.id, transaction)]

\* register_transaction without the check for a duplicate id
register_transaction_overwrite(self, transaction) ==
    IF self.is_frozen THEN self
    ELSE IF transaction.transaction_type = "Deposit"
         THEN [self EXCEPT
                 !.available_balance = @ + transaction.amount,
                 !.transactions = Insert(@, transaction.id, transaction)]
    ELSE IF transaction.amount <= self.available_balance
         THEN [self EXCEPT
                 !.available_balance = @ - transaction.amount,
                 !.transactions = Insert(@, transaction.id, transaction)]
    ELSE self

\* register_transaction without the check of the frozen flag
register_transaction_when_frozen(self, transaction) ==
    IF transaction.id \in DOMAIN self.transactions THEN self
    ELSE IF transaction.transaction_type = "Deposit"
         THEN [self EXCEPT
                 !.available_balance = @ + transaction.amount,
                 !.transactions = Insert(@, transaction.id, transaction)]
    ELSE IF transaction.amount <= self.available_balance
         THEN [self EXCEPT
                 !.available_balance = @ - transaction.amount,
                 !.transactions = Insert(@, transaction.id, transaction)]
    ELSE self

\* Account::register_transaction
register_transaction(self, transaction) ==
    IF self.is_frozen THEN self
    ELSE IF transaction.id \in DOMAIN self.transactions THEN self
    ELSE IF transaction.transaction_type = "Deposit"
         THEN [self EXCEPT
                 !.available_balance = @ + transaction.amount,
                 !.transactions = Insert(@, transaction.id, transaction)]
    ELSE IF transaction.amount <= self.available_balance
         THEN [self EXCEPT
                 !.available_balance = @ - transaction.amount,
                 !.transactions = Insert(@, transaction.id, transaction)]
    ELSE self

\* dispute_transaction that accepts every transaction not now Disputed
dispute_transaction_not_disputed(self, transaction_id) ==
    IF transaction_id \notin DOMAIN self.transactions THEN self
    ELSE LET transaction == self.transactions[transaction_id] IN
         IF transaction.dispute_state = "Disputed" THEN self
         ELSE IF transaction.transaction_type = "Deposit"
              THEN IF transaction.amount <= self.available_balance
                   THEN [self EXCEPT
                           !.available_balance = @ - transaction.amount,
                           !.held_balance = @ + transaction.amount,
                           !.transactions[transaction_id].dispute_state = "Disputed"]
                   ELSE self
         ELSE self

\* dispute_transaction that a frozen account refuses
dispute_transaction_unless_frozen(self, transaction_id) ==
    IF transaction_id \notin DOMAIN self.transactions THEN self
    ELSE LET transaction == self.transactions[transaction_id] IN
         IF self.is_frozen \/ transaction.dispute_state # "Undisputed" THEN self
         ELSE IF transaction.transaction_type = "Deposit"
              THEN IF transaction.amount <= self.available_balance
                   THEN [self EXCEPT
                           !.available_balance = @ - transaction.amount,
                           !.held_balance = @ + transaction.amount,
                           !.transactions[transaction_id].dispute_state = "Disputed"]
                   ELSE self
         ELSE self

\* dispute_transaction that leaves the available balance
dispute_transaction_no_debit(self, transaction_id) ==
    IF transaction_id \notin DOMAIN self.transactions THEN self
    ELSE LET transaction == self.transactions[transaction_id] IN
         IF transaction.dispute_state # "Undisputed" THEN self
         ELSE IF transaction.transaction_type = "Deposit"
              THEN IF transaction.amount <= self.available_balance
                   THEN [self EXCEPT
                           !.held_balance = @ + transaction.amount,
                           !.transactions[transaction_id].dispute_state = "Disputed"]
                   ELSE self
         ELSE self

\* dispute_transaction that leaves the held balance
dispute_transaction_no_hold(self, transaction_id) ==
    IF transaction_id \notin DOMAIN self.transactions THEN self
    ELSE LET transaction == self.transactions[transaction_id] IN
         IF transaction.dispute_state # "Undisputed" THEN self
         ELSE IF transaction.transaction_type = "Deposit"
              THEN IF transaction.amount <= self.available_balance
                   THEN [self EXCEPT
                           !.available_balance = @ - transaction.amount,
                           !.transactions[transaction_id].dispute_state = "Disputed"]
                   ELSE self
         ELSE self

\* dispute_transaction without the check of the available funds
dispute_transaction_overdraw(self, transaction_id) ==
    IF transaction_id \notin DOMAIN self.transactions THEN self
    ELSE LET transaction == self.transactions[transaction_id] IN
         IF transaction.dispute_state # "Undisputed" THEN self
         ELSE IF transaction.transaction_type = "Deposit"
              THEN [self EXCEPT
                      !.available_balance = @ - transaction.amount,
                      !.held_balance = @ + transaction.amount,
                      !.transactions[transaction_id].dispute_state = "Disputed"]
         ELSE self

\* dispute_transaction that treats a Withdrawal as it treats a Deposit
dispute_transaction_any_kind(self, transaction_id) ==
    IF transaction_id \notin DOMAIN self.transactions THEN self
    ELSE LET transaction == self.transactions[transaction_id] IN
         IF transaction.dispute_state # "Undisputed" THEN self
         ELSE IF transaction.amount <= self.available_balance
              THEN [self EXCEPT
                      !.available_balance = @ - transaction.amount,
                      !.held_balance = @ + transaction.amount,
                      !.transactions[transaction_id].dispute_state = "Disputed"]
         ELSE self

\* Account::dispute_transaction
dispute_transaction(self, transaction_id) ==
    IF transaction_id \notin DOMAIN self.transactions THEN self
    ELSE LET transaction == self.transactions[transaction_id] IN
         IF transaction.dispute_state # "Undisputed" THEN self
         ELSE IF transaction.transaction_type = "Deposit"
              THEN IF transaction.amount <= self.available_balance
                   THEN [self EXCEPT
                           !.available_balance = @ - transaction.amount,
                           !.held_balance = @ + transaction.amount,
                           !.transactions[transaction_id].dispute_state = "Disputed"]
                   ELSE self
         ELSE self

\* the panic! branch of resolve_disputed_transaction and of
\* chargeback_disputed_transaction: a Disputed Deposit whose amount exceeds
\* the held balance
held_balance_panic(self, transaction_id) ==
    /\ transaction_id \in DOMAIN self.transactions
    /\ LET transaction == self.transactions[transaction_id] IN
         /\ transaction.dispute_state = "Disputed"
         /\ transaction.transaction_type = "Deposit"
         /\ ~(transaction.amount <= self.held_balance)

\* resolve_disputed_transaction that also lifts the freeze
resolve_disputed_transaction_unfreezes(self, transaction_id) ==
    IF transaction_id \notin DOMAIN self.transactions THEN self
    ELSE LET transaction == self.transactions[transaction_id] IN
         IF transaction.dispute_state # "Disputed" THEN self
         ELSE IF transaction.transaction_type = "Deposit"
              THEN IF transaction.amount <= self.held_balance
                   THEN [self EXCEPT
                           !.held_balance = @ - transaction.amount,
                           !.available_balance = @ + transaction.amount,
                           !.is_frozen = FALSE,
                           !.transactions[transaction_id].dispute_state = "Undisputed"]
                   ELSE self
         ELSE self

\* resolve_disputed_transaction that does not give the amount back
resolve_disputed_transaction_no_credit(self, transaction_id) ==
    IF transaction_id \notin DOMAIN self.transactions THEN self
    ELSE LET transaction == self.transactions[transaction_id] IN
         IF transaction.dispute_state # "Disputed" THEN self
         ELSE IF transaction.transaction_type = "Deposit"
              THEN IF transaction.amount <= self.held_balance
                   THEN [self EXCEPT
                           !.held_balance = @ - transaction.amount,
                           !.transactions[transaction_id].dispute_state = "Undisputed"]
                   ELSE self
         ELSE self

\* resolve_disputed_transaction without the check of the dispute state
resolve_disputed_transaction_any_state(self, transaction_id) ==
    IF transaction_id \notin DOMAIN self.transactions THEN self
    ELSE LET transaction == self.transactions[transaction_id] IN
         IF transaction.transaction_type = "Deposit"
         THEN IF transaction.amount <= self.held_balance
              THEN [self EXCEPT
                      !.held_balance = @ - transaction.amount,
                      !.available_balance = @ + transaction.amount,
                      !.transactions[transaction_id].dispute_state = "Undisputed"]
              ELSE self
         ELSE self

\* Account::resolve_disputed_transaction (when it does not panic)
resolve_disputed_transaction(self, transaction_id) ==
    IF transaction_id \notin DOMAIN self.transactions THEN self
    ELSE LET transaction == self.transactions[transaction_id] IN
         IF transaction.dispute_state # "Disputed" THEN self
         ELSE IF transaction.transaction_type = "Deposit"
              THEN IF transaction.amount <= self.held_balance
                   THEN [self EXCEPT
                           !.held_balance = @ - transaction.amount,
                           !.available_balance = @ + transaction.amount,
                           !.transactions[transaction_id].dispute_state = "Undisputed"]
                   ELSE self
         ELSE self

\* chargeback_disputed_transaction that leaves the held balance
chargeback_disputed_transaction_keeps_hold(self, transaction_id) ==
    IF transaction_id \notin DOMAIN self.transactions THEN self
    ELSE LET transaction == self.transactions[transaction_id] IN
         IF transaction.dispute_state # "Disputed" THEN self
         ELSE IF transaction.transaction_type = "Deposit"
              THEN IF transaction.amount <= self.held_balance
                   THEN [self EXCEPT
                           !.is_frozen = TRUE,
                           !.transactions[transaction_id].dispute_state = "ChargedBack"]
                   ELSE self
         ELSE self

\* chargeback_disputed_transaction that gives the amount back
chargeback_disputed_transaction_refunds(self, transaction_id) ==
    IF transaction_id \notin DOMAIN self.transactions THEN self
    ELSE LET transaction == self.transactions[transaction_id] IN
         IF transaction.dispute_state # "Disputed" THEN self
         ELSE IF transaction.transaction_type = "Deposit"
              THEN IF transaction.amount <= self.held_balance
                   THEN [self EXCEPT
                           !.held_balance = @ - transaction.amount,
                           !.available_balance = @ + transaction.amount,
                           !.is_frozen = TRUE,
                           !.transactions[transaction_id].dispute_state = "ChargedBack"]
                   ELSE self
         ELSE self

\* chargeback_disputed_transaction that freezes the account before it looks
\* the transaction up
chargeback_disputed_transaction_freezes_first(self, transaction_id) ==
    IF transaction_id \notin DOMAIN self.transactions
    THEN [self EXCEPT !.is_frozen = TRUE]
    ELSE LET transaction == self.transactions[transaction_id] IN
         IF transaction.dispute_state # "Disputed" THEN self
         ELSE IF transaction.transaction_type = "Deposit"
              THEN IF transaction.amount <= self.held_balance
                   THEN [self EXCEPT
                           !.held_balance = @ - transaction.amount,
                           !.is_frozen = TRUE,
                           !.transactions[transaction_id].dispute_state = "ChargedBack"]
                   ELSE self
         ELSE self

\* Account::chargeback_disputed_transaction (when it does not panic)
chargeback_disputed_transaction(self, transaction_id) ==
    IF transaction_id \notin DOMAIN self.transactions THEN self
    ELSE LET transaction == self.transactions[transaction_id] IN
         IF transaction.dispute_state # "Disputed" THEN self
         ELSE IF transaction.transaction_type = "Deposit"
              THEN IF transaction.amount <= self.held_balance
                   THEN [self EXCEPT
                           !.held_balance = @ - transaction.amount,
                           !.is_frozen = TRUE,
                           !.transactions[transaction_id].dispute_state = "ChargedBack"]
                   ELSE self
         ELSE self

----------------------------------------------------------------------------
(* main.rs: the driver *)

\* main.rs:67-70: load the account, creating it if it does not exist
EnsureAccount(map, client) ==
    IF client \in DOMAIN map THEN map ELSE Insert(map, client, AccountNew(client))

\* the match of main.rs:77-81
ApplyDisputeAction(account, dispute_action) ==
    IF dispute_action.action_type = "Dispute"
         THEN dispute_transaction(account, dispute_action.transaction_id)
    ELSE IF dispute_action.action_type = "Resolve"
         THEN resolve_disputed_transaction(account, dispute_action.transaction_id)
    ELSE chargeback_disputed_transaction(account, dispute_action.transaction_id)

DisputeActionPanics(account, dispute_action) ==
    /\ dispute_action.action_type \in {"Resolve", "Chargeback"}
    /\ held_balance_panic(account, dispute_action.transaction_id)

\* main.rs:72-81: what one row does to the account it is handed, a function
\* of that account and of the row alone
ApplyRow(account, row) ==
    LET transaction == TransactionTryFrom(row)
        dispute_action == DisputeActionTryFrom(row)
    IN IF transaction.ok
         THEN register_transaction(account, transaction.value)
       ELSE IF dispute_action.ok
               /\ ~DisputeActionPanics(account, dispute_action.value)
         THEN ApplyDisputeAction(account, dispute_action.value)
       ELSE account

\* the keys in descending order
RECURSIVE Descending(_)
Descending(S) ==
    IF S = {} THEN <<>>
    ELSE LET m == CHOOSE x \in S : \A y \in S : x >= y
         IN <<m>> \o Descending(S \ {m})

\* the keys of a BTreeMap in iteration order (ascending)
RECURSIVE Ascending(_)
Ascending(S) ==
    IF S = {} THEN <<>>
    ELSE LET m == CHOOSE x \in S : \A y \in S : x <= y
         IN <<m>> \o Ascending(S \ {m})

\* the loop body with a dispute, resolve or chargeback that acts on the
\* account that has recorded the id when the account the row names has not
ReadRow_any_owner(row) ==
    /\ pc = "reading"
    /\ LET ensured == EnsureAccount(accounts, row.client)
           owners == {c \in DOMAIN ensured :
                        row.tx \in DOMAIN ensured[c].transactions}
           owner == IF TransactionTryFrom(row).ok \/ owners = {}
                       \/ row.client \in owners
                      THEN row.client
                    ELSE CHOOSE c \in owners : TRUE
           account == ensured[owner]
           after == ApplyRow(account, row)
       IN /\ accounts' = [ensured EXCEPT ![owner] = after]
          /\ pc' = pc
          /\ last' = [row |-> row, changed |-> after # account]
    /\ nread' = nread + 1
    /\ UNCHANGED output

\* the loop body with a register_transaction that looks the id up in the
\* histories of all the accounts
ReadRow_global_ids(row) ==
    /\ pc = "reading"
    /\ LET ensured == EnsureAccount(accounts, row.client)
           account == ensured[row.client]
           transaction == TransactionTryFrom(row)
           after == IF transaction.ok
                       /\ \E c \in DOMAIN accounts :
                             transaction.value.id \in DOMAIN accounts[c].transactions
                      THEN account
                    ELSE ApplyRow(account, row)
       IN /\ accounts' = [ensured EXCEPT ![row.client] = after]
          /\ pc' = pc
          /\ last' = [row |-> row, changed |-> after # account]
    /\ nread' = nread + 1
    /\ UNCHANGED output

\* main.rs:61-83: one iteration of the loop over the input rows.  last is a
\* history variable: the row just read and whether it changed the account
\* it names
ReadRow(row) ==
    /\ pc = "reading"
    /\ LET ensured == EnsureAccount(accounts, row.client)
           account == ensured[row.client]
           transaction == TransactionTryFrom(row)
           dispute_action == DisputeActionTryFrom(row)
           after == IF transaction.ok
                      THEN register_transaction(account, transaction.value)
                    ELSE IF dispute_action.ok
                            /\ ~DisputeActionPanics(account, dispute_action.value)
                      THEN ApplyDisputeAction(account, dispute_action.value)
                    ELSE account
       IN /\ accounts' = [ensured EXCEPT ![row.client] = after]
          /\ pc' = IF ~transaction.ok /\ dispute_action.ok
                       /\ DisputeActionPanics(account, dispute_action.value)
                    THEN "panicked" ELSE pc
          /\ last' = [row |-> row, changed |-> after # account]
    /\ nread' = nread + 1
    /\ UNCHANGED output

\* main.rs:85-90: at the end of the input, write one row per account
EndOfInput ==
    /\ pc = "reading"
    /\ pc' = "done"
    /\ output' = [i \in 1..Cardinality(DOMAIN accounts) |->
                    OutputRowFrom(accounts[Ascending(DOMAIN accounts)[i]])]
    /\ UNCHANGED <<accounts, last, nread, solo>>

\* main.rs:59: no accounts, nothing read, nothing written
Init ==
    /\ accounts = EmptyMap
    /\ pc = "reading"
    /\ output = <<>>
    /\ last = [row |-> NoRow, changed |-> FALSE]
    /\ nread = 0
    /\ solo = EmptyMap

\* solo is a history variable of the inputs that name several clients: for
\* each client named by a row read so far, the account obtained by applying
\* the rows that name this client, and no other row, in the order read, to
\* Account::new of the client
Replay(row) ==
    solo' = [c \in DOMAIN solo \cup {row.client} |->
               IF c = row.client
                 THEN ApplyRow(IF c \in DOMAIN solo THEN solo[c]
                               ELSE AccountNew(c), row)
               ELSE solo[c]]

ReadAccountRow ==
    /\ nread < MaxRows
    /\ \E row \in AccountRows : ReadRow(row)
    /\ UNCHANGED solo

ReadDriverRow ==
    /\ nread < MaxDriverRows
    /\ \E row \in DriverRows : ReadRow(row) /\ Replay(row)

Next == ReadAccountRow \/ EndOfInput

NextDriver == ReadDriverRow \/ EndOfInput

\* an input file whose rows all name one client
Spec == Init /\ [][Next]_vars

\* an input file whose rows name any of the clients
SpecDriver == Init /\ [][NextDriver]_vars

----------------------------------------------------------------------------
(* Vocabulary of the properties *)

RECURSIVE SumAmounts(_, _)
SumAmounts(transactions, ids) ==
    IF ids = {} THEN 0
    ELSE LET t == CHOOSE x \in ids : TRUE
         IN transactions[t].amount + SumAmounts(transactions, ids \ {t})

\* the sum of the amounts of the transactions of an account now Disputed
DisputedSum(account) ==
    SumAmounts(account.transactions,
               {t \in DOMAIN account.transactions :
                    account.transactions[t].dispute_state = "Disputed"})

\* this step reads a row (every step but the end of the input does)
RowRead == nread' = nread + 1

\* the account the row of this step acts on, before and after the step
Before(c) == EnsureAccount(accounts, c)[c]
After(c) == accounts'[c]

\* this step reads a deposit or withdrawal row the conversion accepts
Registers == RowRead /\ TransactionTryFrom(last'.row).ok

\* this step reads a row that converts to the dispute action of kind k
Acts(k) ==
    /\ RowRead
    /\ ~TransactionTryFrom(last'.row).ok
    /\ DisputeActionTryFrom(last'.row).ok
    /\ DisputeActionTryFrom(last'.row).value.action_type = k

\* the row just read named transaction t of client c
LastNames(c, t) == nread > 0 /\ last.row.client = c /\ last.row.tx = t

Recorded(account, t) == t \in DOMAIN account.transactions

----------------------------------------------------------------------------
(* C1 *)

\* C1: in every reachable state, the held balance of each account equals the
\* sum of the amounts of its transactions that are currently Disputed.
C1_HeldIsDisputedSum ==
    \A c \in DOMAIN accounts : accounts[c].held_balance = DisputedSum(accounts[c])

\* a deposit is under dispute while another has been charged back
C1_Witness ==
    \E c \in DOMAIN accounts : \E t, u \in DOMAIN accounts[c].transactions :
        /\ accounts[c].transactions[t].dispute_state = "Disputed"
        /\ accounts[c].transactions[t].amount > 0
        /\ accounts[c].transactions[u].dispute_state = "ChargedBack"
        /\ accounts[c].transactions[u].amount > 0
        /\ accounts[c].held_balance > 0

----------------------------------------------------------------------------
(* C2 *)

\* C2: in every reachable state (input amounts that are accepted are never
\* negative), the available and the held balance of each account are >= 0.
C2_BalancesNonNegative ==
    \A c \in DOMAIN accounts :
        accounts[c].available_balance >= 0 /\ accounts[c].held_balance >= 0

\* a withdrawal of the whole available balance has been recorded, and a
\* later withdrawal was dropped
C2_Witness ==
    \E c \in DOMAIN accounts : \E t \in DOMAIN accounts[c].transactions :
        /\ accounts[c].transactions[t].transaction_type = "Withdrawal"
        /\ accounts[c].transactions[t].amount > 0
        /\ accounts[c].available_balance = 0
        /\ nread > 0
        /\ last.row.transaction_type = "withdrawal"
        /\ last.row.amount.some /\ last.row.amount.value > 0
        /\ ~last.changed

----------------------------------------------------------------------------
(* C3 *)

\* C3: the panic branch of resolve and chargeback is never executed: no run
\* panics, because in every reachable state every Disputed Deposit has an
\* amount <= the held balance of its account.
C3_GuardUnreachable ==
    /\ pc # "panicked"
    /\ \A c \in DOMAIN accounts : \A t \in DOMAIN accounts[c].transactions :
          (/\ accounts[c].transactions[t].dispute_state = "Disputed"
           /\ accounts[c].transactions[t].transaction_type = "Deposit")
          => accounts[c].transactions[t].amount <= accounts[c].held_balance

\* a resolve or a chargeback has just taken effect on a Deposit with a
\* positive amount while another Deposit stays Disputed
C3_Witness ==
    /\ nread > 0
    /\ last.row.transaction_type \in {"resolve", "chargeback"}
    /\ last.changed
    /\ \E c \in DOMAIN accounts : \E t, u \in DOMAIN accounts[c].transactions :
          /\ LastNames(c, t)
          /\ accounts[c].transactions[t].amount > 0
          /\ accounts[c].transactions[u].dispute_state = "Disputed"

----------------------------------------------------------------------------
(* C4 *)

\* C4: in every step the dispute state of every recorded transaction either
\* stays, or goes Undisputed -> Disputed by a dispute row naming it, or
\* Disputed -> Undisputed by a resolve row naming it, or Disputed ->
\* ChargedBack by a chargeback row naming it; a ChargedBack transaction
\* keeps that state in every step.
C4_DisputeStateEdges ==
    [][\A c \in DOMAIN accounts : \A t \in DOMAIN accounts[c].transactions :
          /\ c \in DOMAIN accounts'
          /\ t \in DOMAIN accounts'[c].transactions
          /\ LET a == accounts[c].transactions[t].dispute_state
                 b == accounts'[c].transactions[t].dispute_state
                 named == last'.row.client = c /\ last'.row.tx = t
             IN \/ a = b
                \/ a = "Undisputed" /\ b = "Disputed" /\ Acts("Dispute") /\ named
                \/ a = "Disputed" /\ b = "Undisputed" /\ Acts("Resolve") /\ named
                \/ a = "Disputed" /\ b = "ChargedBack" /\ Acts("Chargeback") /\ named
      ]_vars

\* a dispute or resolve row has just been read that names a transaction
\* which is ChargedBack
C4_Witness ==
    \E c \in DOMAIN accounts : \E t \in DOMAIN accounts[c].transactions :
        /\ accounts[c].transactions[t].dispute_state = "ChargedBack"
        /\ LastNames(c, t)
        /\ last.row.transaction_type \in {"dispute", "resolve"}

----------------------------------------------------------------------------
(* C5 *)

\* C5: in every step, an account that is frozen before the step is frozen
\* after it.
C5_FrozenLatch ==
    [][\A c \in DOMAIN accounts :
          accounts[c].is_frozen => (c \in DOMAIN accounts' /\ accounts'[c].is_frozen)
      ]_vars

\* a resolve has just taken effect on an account that is frozen
C5_Witness ==
    \E c \in DOMAIN accounts :
        /\ accounts[c].is_frozen
        /\ nread > 0
        /\ last.row.client = c
        /\ last.row.transaction_type = "resolve"
        /\ last.changed

----------------------------------------------------------------------------
(* C6 *)

\* C6: a step that registers a transaction whose id is already in the
\* history of the account leaves every account as it was: balances, frozen
\* flag and history, the stored transaction included.
C6_DuplicateIdDropped ==
    [][(/\ Registers
        /\ last'.row.client \in DOMAIN accounts
        /\ Recorded(accounts[last'.row.client], last'.row.tx))
       => accounts' = accounts
      ]_vars

\* on an account that is not frozen, the row just read is a deposit with the
\* id of a recorded withdrawal or with an amount that differs from the
\* recorded one
C6_Witness ==
    \E c \in DOMAIN accounts : \E t \in DOMAIN accounts[c].transactions :
        /\ ~accounts[c].is_frozen
        /\ LastNames(c, t)
        /\ last.row.transaction_type = "deposit"
        /\ last.row.amount.some /\ last.row.amount.value > 0
        /\ \/ accounts[c].transactions[t].transaction_type = "Withdrawal"
           \/ accounts[c].transactions[t].amount # last.row.amount.value

----------------------------------------------------------------------------
(* C7 *)

\* C7: a step that registers a withdrawal whose amount exceeds the available
\* balance leaves the account as it was and does not record the withdrawal;
\* one whose amount is <= the available balance, on an account that is not
\* frozen and with an id not yet recorded, decreases the available balance
\* by the amount, keeps the held balance and the frozen flag, and records
\* the withdrawal as Undisputed.
C7_Withdrawal ==
    [][(Registers /\ last'.row.transaction_type = "withdrawal")
       => LET row == last'.row
              amount == row.amount.value
              before == Before(row.client)
              after == After(row.client)
          IN /\ amount > before.available_balance
                => /\ after = before
                   /\ (Recorded(after, row.tx) => Recorded(before, row.tx))
             /\ (/\ amount <= before.available_balance
                 /\ ~before.is_frozen
                 /\ ~Recorded(before, row.tx))
                => /\ after.available_balance = before.available_balance - amount
                   /\ after.held_balance = before.held_balance
                   /\ after.is_frozen = before.is_frozen
                   /\ DOMAIN after.transactions = DOMAIN before.transactions \cup {row.tx}
                   /\ after.transactions[row.tx] =
                        Transaction(row.tx, row.client, amount, "Withdrawal", "Undisputed")
                   /\ \A t \in DOMAIN before.transactions :
                        after.transactions[t] = before.transactions[t]
      ]_vars

\* the row just read is a withdrawal with a fresh id whose amount exceeds
\* the available balance of an account that is not frozen and whose funds
\* are held under dispute; it changed nothing
C7_Witness ==
    \E c \in DOMAIN accounts :
        /\ ~accounts[c].is_frozen
        /\ accounts[c].held_balance > 0
        /\ nread > 0
        /\ last.row.client = c
        /\ last.row.transaction_type = "withdrawal"
        /\ last.row.amount.some
        /\ last.row.amount.value > accounts[c].available_balance
        /\ ~Recorded(accounts[c], last.row.tx)
        /\ ~last.changed

----------------------------------------------------------------------------
(* C8 *)

\* C8: a step that registers a deposit or a withdrawal, of any id and
\* amount, on an account that is frozen leaves every account as it was.
C8_FrozenDropsRegister ==
    [][(/\ Registers
        /\ last'.row.client \in DOMAIN accounts
        /\ accounts[last'.row.client].is_frozen)
       => accounts' = accounts
      ]_vars

\* the row just read is a deposit with a fresh id and a positive amount, on
\* an account that is frozen
C8_Witness ==
    \E c \in DOMAIN accounts :
        /\ accounts[c].is_frozen
        /\ nread > 0
        /\ last.row.client = c
        /\ last.row.transaction_type = "deposit"
        /\ last.row.amount.some /\ last.row.amount.value > 0
        /\ ~Recorded(accounts[c], last.row.tx)

----------------------------------------------------------------------------
(* C9 *)

\* C9: on an account that is frozen, a dispute of an Undisputed Deposit with
\* amount <= the available balance moves the amount from available to held
\* and sets the transaction Disputed; a resolve of a Disputed Deposit moves
\* the amount back and sets it Undisputed; a chargeback of a Disputed
\* Deposit takes the amount off the held balance and sets it ChargedBack.
C9_FrozenStillDisputes ==
    [][\A k \in DisputeActionType :
        (/\ Acts(k)
         /\ last'.row.client \in DOMAIN accounts
         /\ accounts[last'.row.client].is_frozen
         /\ Recorded(accounts[last'.row.client], last'.row.tx)
         /\ accounts[last'.row.client].transactions[last'.row.tx].transaction_type = "Deposit")
        => LET before == accounts[last'.row.client]
               after == After(last'.row.client)
               t == last'.row.tx
               amount == before.transactions[t].amount
               state == before.transactions[t].dispute_state
           IN /\ (k = "Dispute" /\ state = "Undisputed"
                    /\ amount <= before.available_balance)
                 => /\ after.available_balance = before.available_balance - amount
                    /\ after.held_balance = before.held_balance + amount
                    /\ after.transactions[t].dispute_state = "Disputed"
              /\ (k = "Resolve" /\ state = "Disputed")
                 => /\ after.available_balance = before.available_balance + amount
                    /\ after.held_balance = before.held_balance - amount
                    /\ after.transactions[t].dispute_state = "Undisputed"
              /\ (k = "Chargeback" /\ state = "Disputed")
                 => /\ after.available_balance = before.available_balance
                    /\ after.held_balance = before.held_balance - amount
                    /\ after.transactions[t].dispute_state = "ChargedBack"
              /\ after.is_frozen
      ]_vars

\* on an account that is frozen by the chargeback of another transaction, a
\* dispute has just put a Deposit with a positive amount into Disputed
C9_Witness ==
    \E c \in DOMAIN accounts : \E t, u \in DOMAIN accounts[c].transactions :
        /\ accounts[c].is_frozen
        /\ accounts[c].transactions[u].dispute_state = "ChargedBack"
        /\ LastNames(c, t)
        /\ last.row.transaction_type = "dispute"
        /\ last.changed
        /\ accounts[c].transactions[t].dispute_state = "Disputed"
        /\ accounts[c].transactions[t].amount > 0

----------------------------------------------------------------------------
(* C10 *)

\* C10: a dispute of an Undisputed Deposit with amount <= the available
\* balance decreases the available balance by the amount, increases the held
\* balance by the amount, sets the transaction Disputed, and keeps the
\* frozen flag, the set of recorded ids, every other transaction, and the
\* id, client, amount and kind of the disputed one.
C10_DisputeEffect ==
    [][(/\ Acts("Dispute")
        /\ last'.row.client \in DOMAIN accounts
        /\ Recorded(accounts[last'.row.client], last'.row.tx)
        /\ LET tr == accounts[last'.row.client].transactions[last'.row.tx]
           IN /\ tr.transaction_type = "Deposit"
              /\ tr.dispute_state = "Undisputed"
              /\ tr.amount <= accounts[last'.row.client].available_balance)
       => LET before == accounts[last'.row.client]
              after == After(last'.row.client)
              t == last'.row.tx
              amount == before.transactions[t].amount
          IN /\ after.available_balance = before.available_balance - amount
             /\ after.held_balance = before.held_balance + amount
             /\ after.is_frozen = before.is_frozen
             /\ DOMAIN after.transactions = DOMAIN before.transactions
             /\ after.transactions[t] =
                  [before.transactions[t] EXCEPT !.dispute_state = "Disputed"]
             /\ \A u \in DOMAIN before.transactions \ {t} :
                  after.transactions[u] = before.transactions[u]
      ]_vars

\* a dispute has just put a Deposit with a positive amount into Disputed on
\* an account that is not frozen and holds another transaction
C10_Witness ==
    \E c \in DOMAIN accounts : \E t, u \in DOMAIN accounts[c].transactions :
        /\ t # u
        /\ ~accounts[c].is_frozen
        /\ LastNames(c, t)
        /\ last.row.transaction_type = "dispute"
        /\ last.changed
        /\ accounts[c].transactions[t].dispute_state = "Disputed"
        /\ accounts[c].transactions[t].amount > 0

----------------------------------------------------------------------------
(* C11 *)

\* C11: a step that reads a dispute of an Undisputed Deposit whose amount
\* exceeds the available balance leaves the account as it was (both
\* balances, the transaction still Undisputed); and the dispute is not kept
\* for later: a transaction becomes Disputed only in a step that reads a
\* dispute row naming it.
C11_UnfundedDisputeDropped ==
    [][/\ (/\ RowRead
           /\ last'.row.client \in DOMAIN accounts
           /\ Recorded(accounts[last'.row.client], last'.row.tx)
           /\ LET tr == accounts[last'.row.client].transactions[last'.row.tx]
              IN /\ tr.transaction_type = "Deposit"
                 /\ tr.dispute_state = "Undisputed"
                 /\ tr.amount > accounts[last'.row.client].available_balance
           /\ Acts("Dispute"))
          => /\ accounts' = accounts
             /\ pc' = pc
       /\ \A c \in DOMAIN accounts : \A t \in DOMAIN accounts[c].transactions :
            (/\ accounts[c].transactions[t].dispute_state # "Disputed"
             /\ accounts'[c].transactions[t].dispute_state = "Disputed")
            => (Acts("Dispute") /\ last'.row.client = c /\ last'.row.tx = t)
      ]_vars

\* the row just read is a dispute of an Undisputed Deposit whose amount
\* exceeds the available balance, after a withdrawal took the funds
C11_Witness ==
    \E c \in DOMAIN accounts : \E t, u \in DOMAIN accounts[c].transactions :
        /\ LastNames(c, t)
        /\ last.row.transaction_type = "dispute"
        /\ ~last.changed
        /\ accounts[c].transactions[t].transaction_type = "Deposit"
        /\ accounts[c].transactions[t].dispute_state = "Undisputed"
        /\ accounts[c].transactions[t].amount > accounts[c].available_balance
        /\ accounts[c].transactions[u].transaction_type = "Withdrawal"
        /\ accounts[c].transactions[u].amount > 0

----------------------------------------------------------------------------
(* C12 *)

\* C12: after every step every recorded Withdrawal is Undisputed, and a
\* step that reads a dispute, resolve or chargeback naming a recorded
\* Withdrawal leaves every account as it was (dispute state, balances,
\* frozen flag).
C12_WithdrawalStaysUndisputed ==
    [][/\ \A c \in DOMAIN accounts' : \A t \in DOMAIN accounts'[c].transactions :
            accounts'[c].transactions[t].transaction_type = "Withdrawal"
            => accounts'[c].transactions[t].dispute_state = "Undisputed"
       /\ (/\ RowRead
           /\ last'.row.client \in DOMAIN accounts
           /\ Recorded(accounts[last'.row.client], last'.row.tx)
           /\ accounts[last'.row.client].transactions[last'.row.tx].transaction_type
                = "Withdrawal"
           /\ \E k \in DisputeActionType : Acts(k))
          => /\ accounts' = accounts
             /\ pc' = pc
      ]_vars

\* the row just read is a dispute naming a recorded Withdrawal whose amount
\* the available balance covers
C12_Witness ==
    \E c \in DOMAIN accounts : \E t \in DOMAIN accounts[c].transactions :
        /\ LastNames(c, t)
        /\ last.row.transaction_type = "dispute"
        /\ accounts[c].transactions[t].transaction_type = "Withdrawal"
        /\ accounts[c].transactions[t].amount <= accounts[c].available_balance
        /\ accounts[c].available_balance > 0

----------------------------------------------------------------------------
(* C13 *)

\* C13: in every reachable account state and for every transaction id that
\* is not Disputed there (recorded or not), dispute followed by resolve of
\* that id does not panic and gives back the account as it was: balances,
\* frozen flag and every transaction.
C13_DisputeResolveIdentity ==
    \A c \in DOMAIN accounts : \A t \in TxIds :
        (Recorded(accounts[c], t)
            => accounts[c].transactions[t].dispute_state # "Disputed")
        => /\ ~held_balance_panic(dispute_transaction(accounts[c], t), t)
           /\ resolve_disputed_transaction(dispute_transaction(accounts[c], t), t)
                = accounts[c]

\* a resolve has just put a Deposit with a positive amount back to
\* Undisputed, and a dispute of it would take effect again
C13_Witness ==
    \E c \in DOMAIN accounts : \E t \in DOMAIN accounts[c].transactions :
        /\ LastNames(c, t)
        /\ last.row.transaction_type = "resolve"
        /\ last.changed
        /\ accounts[c].transactions[t].dispute_state = "Undisputed"
        /\ accounts[c].transactions[t].amount > 0
        /\ dispute_transaction(accounts[c], t) # accounts[c]

----------------------------------------------------------------------------
(* C14 *)

\* C14: a step that reads a chargeback of a Disputed Deposit decreases the
\* held balance by the amount of the transaction, keeps the available
\* balance, sets the frozen flag of the account and sets the transaction
\* ChargedBack.
C14_ChargebackEffect ==
    [][(/\ Acts("Chargeback")
        /\ last'.row.client \in DOMAIN accounts
        /\ Recorded(accounts[last'.row.client], last'.row.tx)
        /\ LET tr == accounts[last'.row.client].transactions[last'.row.tx]
           IN tr.transaction_type = "Deposit" /\ tr.dispute_state = "Disputed")
       => LET before == accounts[last'.row.client]
              after == After(last'.row.client)
              t == last'.row.tx
          IN /\ after.held_balance = before.held_balance - before.transactions[t].amount
             /\ after.available_balance = before.available_balance
             /\ after.is_frozen
             /\ after.transactions[t].dispute_state = "ChargedBack"
             /\ pc' = pc
      ]_vars

\* a chargeback has just taken effect on a Deposit with a positive amount,
\* on an account with a positive available balance
C14_Witness ==
    \E c \in DOMAIN accounts : \E t \in DOMAIN accounts[c].transactions :
        /\ LastNames(c, t)
        /\ last.row.transaction_type = "chargeback"
        /\ last.changed
        /\ accounts[c].transactions[t].dispute_state = "ChargedBack"
        /\ accounts[c].transactions[t].amount > 0
        /\ accounts[c].is_frozen
        /\ accounts[c].available_balance > 0

----------------------------------------------------------------------------
(* C15 *)

\* C15: a step that reads a dispute, resolve or chargeback whose transaction
\* id is not in the history of the account it names leaves that account as
\* it was (a new one if the client had none): balances, frozen flag and
\* history; and it leaves every other account as it was.
C15_UnknownIdNoOp ==
    [][(/\ RowRead
        /\ (last'.row.client \in DOMAIN accounts
              => ~Recorded(accounts[last'.row.client], last'.row.tx))
        /\ \E k \in DisputeActionType : Acts(k))
       => /\ After(last'.row.client) =
               IF last'.row.client \in DOMAIN accounts
               THEN accounts[last'.row.client]
               ELSE AccountNew(last'.row.client)
          /\ \A c \in DOMAIN accounts : accounts'[c] = accounts[c]
          /\ pc' = pc
      ]_vars

\* the row just read is a chargeback of an id that is not recorded, on an
\* account that holds a Disputed Deposit
C15_Witness ==
    \E c \in DOMAIN accounts :
        /\ nread > 0
        /\ last.row.client = c
        /\ last.row.transaction_type = "chargeback"
        /\ ~Recorded(accounts[c], last.row.tx)
        /\ accounts[c].held_balance > 0

----------------------------------------------------------------------------
(* C16 *)

\* C16: a step that reads a resolve or a chargeback naming a recorded
\* transaction that is Undisputed or ChargedBack, or a dispute naming one
\* that is Disputed or ChargedBack, leaves every account as it was: balances,
\* frozen flag and every dispute state.
C16_WrongStateNoOp ==
    [][(/\ RowRead
        /\ last'.row.client \in DOMAIN accounts
        /\ Recorded(accounts[last'.row.client], last'.row.tx)
        /\ LET state == accounts[last'.row.client].transactions[last'.row.tx].dispute_state
           IN \/ state \in {"Disputed", "ChargedBack"} /\ Acts("Dispute")
              \/ /\ state \in {"Undisputed", "ChargedBack"}
                 /\ \E k \in {"Resolve", "Chargeback"} : Acts(k))
       => /\ accounts' = accounts
          /\ pc' = pc
      ]_vars

\* the row just read is a resolve naming an Undisputed Deposit whose amount
\* the held balance covers
C16_Witness ==
    \E c \in DOMAIN accounts : \E t \in DOMAIN accounts[c].transactions :
        /\ LastNames(c, t)
        /\ last.row.transaction_type = "resolve"
        /\ accounts[c].transactions[t].transaction_type = "Deposit"
        /\ accounts[c].transactions[t].dispute_state = "Undisputed"
        /\ accounts[c].transactions[t].amount > 0
        /\ accounts[c].transactions[t].amount <= accounts[c].held_balance
        /\ ~last.changed

----------------------------------------------------------------------------
(* C17 *)

----------------------------------------------------------------------------
(* C18 *)

\* C18: when the input has ended, each snapshot written has the id, the
\* available balance, the held balance and the frozen flag of the account of
\* its client, and a total equal to its available plus its held.
C18_SnapshotFields ==
    pc = "done"
    => \A i \in 1..Len(output) :
          /\ output[i].client \in DOMAIN accounts
          /\ LET account == accounts[output[i].client]
             IN /\ output[i].client = account.id
                /\ output[i].available = account.available_balance
                /\ output[i].held = account.held_balance
                /\ output[i].locked = account.is_frozen
                /\ output[i].total = output[i].available + output[i].held

\* the snapshot of a frozen account with a positive held balance is written
C18_Witness ==
    /\ pc = "done"
    /\ \E i \in 1..Len(output) :
          /\ output[i].locked
          /\ output[i].held > 0
          /\ output[i].total > 0

----------------------------------------------------------------------------
(* C19 *)

\* C19: a step that reads a row which converts neither to a Transaction nor
\* to a DisputeAction (unknown type string, or a deposit or withdrawal with
\* a negative or missing amount) leaves the set of accounts and every
\* account as they were, so the row adds no account and no output row.
\* main inserts the account of the client before it converts the row
\* (main.rs:67-69), so such a row naming a new client adds an account.
C19_InvalidRowChangesNothing ==
    [][(/\ RowRead
        /\ ~TransactionTryFrom(last'.row).ok
        /\ ~DisputeActionTryFrom(last'.row).ok)
       => accounts' = accounts
      ]_vars

----------------------------------------------------------------------------
(* C20 *)

\* C20: in every reachable state no transaction id is recorded in the
\* histories of two different accounts.  register_transaction looks the id
\* up in the history of its own account only (account.rs:45), so two
\* clients can each record a transaction with the same id.
C20_IdsUniqueAcrossAccounts ==
    \A c, d \in DOMAIN accounts :
        c # d => DOMAIN accounts[c].transactions \cap DOMAIN accounts[d].transactions = {}

----------------------------------------------------------------------------
(* C21 *)

----------------------------------------------------------------------------
(* C22 *)

\* C22: no step removes a transaction from the history of an account, and
\* every transaction in the history of an account before a step is in it
\* after the step with the same id, client_id, amount and transaction_type;
\* of its fields only dispute_state may differ.
C22_HistoryAppendOnly ==
    [][\A c \in DOMAIN accounts :
          /\ c \in DOMAIN accounts'
          /\ \A t \in DOMAIN accounts[c].transactions :
                /\ t \in DOMAIN accounts'[c].transactions
                /\ LET old == accounts[c].transactions[t]
                       new == accounts'[c].transactions[t]
                   IN /\ new.id = old.id
                      /\ new.client_id = old.client_id
                      /\ new.amount = old.amount
                      /\ new.transaction_type = old.transaction_type
      ]_vars

\* a dispute, resolve or chargeback has just changed the dispute_state of a
\* transaction of a history that holds another transaction too
C22_Witness ==
    \E c \in DOMAIN accounts : \E t \in DOMAIN accounts[c].transactions :
        /\ LastNames(c, t)
        /\ last.row.transaction_type \in {"dispute", "resolve", "chargeback"}
        /\ last.changed
        /\ DOMAIN accounts[c].transactions # {t}
        /\ accounts[c].transactions[t].id = t
        /\ accounts[c].transactions[t].client_id = c

----------------------------------------------------------------------------
(* C23 *)

\* C23: before and after every step, an account is frozen exactly when some
\* transaction of its history is ChargedBack; and a step after which an
\* account is frozen that was not frozen (or did not exist) before reads a
\* chargeback row naming this account, and a transaction of it that the
\* step takes from Disputed to ChargedBack.
C23_FrozenIffChargedBack ==
    [][/\ \A c \in DOMAIN accounts :
             accounts[c].is_frozen
             <=> \E t \in DOMAIN accounts[c].transactions :
                    accounts[c].transactions[t].dispute_state = "ChargedBack"
       /\ \A c \in DOMAIN accounts' :
             /\ accounts'[c].is_frozen
                <=> \E t \in DOMAIN accounts'[c].transactions :
                       accounts'[c].transactions[t].dispute_state = "ChargedBack"
             /\ (accounts'[c].is_frozen /\ ~Before(c).is_frozen)
                => /\ last'.row.client = c
                   /\ Recorded(Before(c), last'.row.tx)
                   /\ Before(c).transactions[last'.row.tx].dispute_state = "Disputed"
                   /\ accounts'[c].transactions[last'.row.tx].dispute_state = "ChargedBack"
                   /\ Acts("Chargeback")
      ]_vars

\* a chargeback has just frozen an account in whose history another
\* transaction is not ChargedBack
C23_Witness ==
    \E c \in DOMAIN accounts : \E t, u \in DOMAIN accounts[c].transactions :
        /\ LastNames(c, t)
        /\ last.row.transaction_type = "chargeback"
        /\ last.changed
        /\ accounts[c].is_frozen
        /\ accounts[c].transactions[t].dispute_state = "ChargedBack"
        /\ accounts[c].transactions[u].dispute_state # "ChargedBack"

----------------------------------------------------------------------------
(* C24 *)

\* the ids of the transactions of an account of the kind k
OfKind(account, k) ==
    {t \in DOMAIN account.transactions :
        account.transactions[t].transaction_type = k}

\* the ids of the Deposits of an account that are ChargedBack
ChargedBackDeposits(account) ==
    {t \in OfKind(account, "Deposit") :
        account.transactions[t].dispute_state = "ChargedBack"}

\* C24: in every reachable state, for every account, available_balance plus
\* held_balance is the sum of the amounts of the Deposits of its history,
\* minus the sum of the amounts of its Withdrawals, minus the sum of the
\* amounts of its Deposits that are ChargedBack.
C24_FundsConserved ==
    \A c \in DOMAIN accounts :
        accounts[c].available_balance + accounts[c].held_balance
        = SumAmounts(accounts[c].transactions, OfKind(accounts[c], "Deposit"))
          - SumAmounts(accounts[c].transactions, OfKind(accounts[c], "Withdrawal"))
          - SumAmounts(accounts[c].transactions, ChargedBackDeposits(accounts[c]))

\* an account has recorded a Withdrawal, has charged a Deposit with a
\* positive amount back, and holds nothing under dispute
C24_Witness ==
    \E c \in DOMAIN accounts :
        /\ OfKind(accounts[c], "Withdrawal") # {}
        /\ \E t \in ChargedBackDeposits(accounts[c]) :
              accounts[c].transactions[t].amount > 0
        /\ accounts[c].held_balance = 0

----------------------------------------------------------------------------
(* C25 *)

----------------------------------------------------------------------------
(* C26 *)

\* the total of an account
Total(account) == account.available_balance + account.held_balance

\* C26: a step taken when an account is frozen does not increase the total
\* of the account.  When the row of the step names the account: a row that
\* registers a transaction leaves the account as it was; a dispute or a
\* resolve leaves the total as it was, whether or not it takes effect; and a
\* chargeback that takes effect lowers the total by the amount of the
\* transaction it charges back, one that does not leaves the account as it
\* was.
C26_FrozenTotalNeverIncreases ==
    [][\A c \in DOMAIN accounts :
          accounts[c].is_frozen
          => LET before == accounts[c]
                 after == accounts'[c]
             IN /\ Total(after) <= Total(before)
                /\ (RowRead /\ last'.row.client = c)
                   => /\ Registers => after = before
                      /\ (Acts("Dispute") \/ Acts("Resolve"))
                         => Total(after) = Total(before)
                      /\ (Acts("Chargeback") /\ after # before)
                         => Total(after) = Total(before)
                                - before.transactions[last'.row.tx].amount
      ]_vars

\* a chargeback of a Deposit with a positive amount has just taken effect on
\* an account that another chargeback had frozen
C26_Witness ==
    \E c \in DOMAIN accounts : \E t, u \in DOMAIN accounts[c].transactions :
        /\ LastNames(c, t)
        /\ last.row.transaction_type = "chargeback"
        /\ last.changed
        /\ t # u
        /\ accounts[c].transactions[u].dispute_state = "ChargedBack"
        /\ accounts[c].transactions[t].dispute_state = "ChargedBack"
        /\ accounts[c].transactions[t].amount > 0
        /\ accounts[c].is_frozen

====
